---- MODULE Spec2Model ----
(***************************************************************************)
(* A model of mysql_compressed_fields: the MySQL COMPRESS() framing codec  *)
(* (functions.py) and the CompressedTextField value conversions            *)
(* (fields.py).                                                            *)
(*                                                                         *)
(* Byte strings are sequences of integers 0..255, text is a sequence of    *)
(* Unicode code points.  The zlib library the codec calls is modelled      *)
(* bit-exactly for short inputs: a zlib stream is the two header bytes     *)
(* 78 9C, one final fixed-Huffman deflate block produced by zlib's level-6 *)
(* lazy matcher (deflate_slow), and the big-endian Adler-32 of the input.  *)
(***************************************************************************)
EXTENDS Integers, Sequences, FiniteSets, TLC

(***************************************************************************)
(* Bounds of the model.                                                    *)
(***************************************************************************)
\* longest plaintext (in bytes) drawn by Init
MaxLen == 5
\* longest text (in code points) drawn by Init for the field adapter
MaxText == 2

(***************************************************************************)
(* Bit and byte helpers.                                                   *)
(***************************************************************************)
RECURSIVE Pow2(_)
Pow2(k) == IF k = 0 THEN 1 ELSE 2 * Pow2(k - 1)

\* the n low bits of v, most significant first (Huffman codes)
RECURSIVE bits_msb(_, _)
bits_msb(v, n) == IF n = 0 THEN <<>> ELSE bits_msb(v \div 2, n - 1) \o <<v % 2>>

\* the n low bits of v, least significant first (extra bits, block header)
RECURSIVE bits_lsb(_, _)
bits_lsb(v, n) == IF n = 0 THEN <<>> ELSE <<v % 2>> \o bits_lsb(v \div 2, n - 1)

\* value of the k bits of bits starting at index p, most significant first
RECURSIVE value_msb(_, _, _)
value_msb(bits, p, k) ==
    IF k = 0 THEN 0 ELSE 2 * value_msb(bits, p, k - 1) + bits[p + k - 1]

\* value of the k bits of bits starting at index p, least significant first
RECURSIVE value_lsb(_, _, _)
value_lsb(bits, p, k) ==
    IF k = 0 THEN 0 ELSE bits[p] + 2 * value_lsb(bits, p + 1, k - 1)

\* deflate packs bits into bytes starting at the least significant bit;
\* the last byte is padded with zero bits
RECURSIVE pack_bits(_)
pack_bits(bits) ==
    IF Len(bits) = 0 THEN <<>>
    ELSE LET b == [j \in 1..8 |-> IF j <= Len(bits) THEN bits[j] ELSE 0]
         IN  <<value_lsb(b, 1, 8)>>
             \o pack_bits(IF Len(bits) <= 8 THEN <<>> ELSE SubSeq(bits, 9, Len(bits)))

RECURSIVE unpack_bits(_)
unpack_bits(bytes) ==
    IF Len(bytes) = 0 THEN <<>>
    ELSE bits_lsb(bytes[1], 8) \o unpack_bits(Tail(bytes))

(***************************************************************************)
(* zlib: Adler-32                                                          *)
(***************************************************************************)
ADLER_BASE == 65521

\* the pair (a, b) of the running Adler-32 sums after the bytes of w
RECURSIVE adler_sums(_)
adler_sums(w) ==
    IF Len(w) = 0 THEN <<1, 0>>
    ELSE LET s == adler_sums(SubSeq(w, 1, Len(w) - 1))
             a == (s[1] + w[Len(w)]) % ADLER_BASE
         IN  <<a, (s[2] + a) % ADLER_BASE>>

\* the checksum as the stream stores it: (b << 16 | a), big-endian
adler32(w) ==
    LET s == adler_sums(w)
    IN  <<s[2] \div 256, s[2] % 256, s[1] \div 256, s[1] % 256>>

(***************************************************************************)
(* zlib: deflate (compression level 6, a single fixed-Huffman block)       *)
(***************************************************************************)
MIN_MATCH == 3
MAX_MATCH == 258
TOO_FAR == 4096
\* configuration_table[6].max_lazy
max_lazy_match == 16

\* a token of the block: a literal byte (len = 0, v = the byte) or a
\* match (len = its length, v = its distance)
Literal(b) == [len |-> 0, v |-> b]
Match(l, d) == [len |-> l, v |-> d]

\* length of the common prefix of w at (0-based) positions q and cur,
\* cur > q, capped at MAX_MATCH and at the end of the input
RECURSIVE match_len(_, _, _, _)
match_len(w, q, cur, l) ==
    IF cur + l < Len(w) /\ l < MAX_MATCH /\ w[q + l + 1] = w[cur + l + 1]
    THEN match_len(w, q, cur, l + 1)
    ELSE l

\* longest_match(): the best match for position cur among the inserted
\* positions (position 0 is NIL and never a candidate); only a match longer
\* than prev_length replaces it, and the most recent one wins a tie.
\* Returns <<length, start>>, start = -1 when nothing longer was found.
longest_match(w, ins, cur, prev_length) ==
    LET cand == {q \in ins : q >= 1 /\ q < cur /\ match_len(w, q, cur, 0) > prev_length}
    IN  IF cand = {} THEN <<prev_length, -1>>
        ELSE LET best == CHOOSE q \in cand :
                            \A r \in cand :
                                \/ match_len(w, r, cur, 0) < match_len(w, q, cur, 0)
                                \/ /\ match_len(w, r, cur, 0) = match_len(w, q, cur, 0)
                                   /\ r <= q
             IN  <<match_len(w, best, cur, 0), best>>

\* deflate_slow(): lazy matching.  s is the matcher's state; the result is
\* the sequence of tokens of the block.
RECURSIVE deflate_slow(_, _)
deflate_slow(w, s) ==
    IF s.lookahead = 0
    THEN IF s.match_available
         THEN Append(s.toks, Literal(w[s.strstart]))
         ELSE s.toks
    ELSE
      LET cur == s.strstart
          hashed == s.lookahead >= MIN_MATCH
          ins1 == IF hashed THEN s.ins \cup {cur} ELSE s.ins
          prev_length == s.match_length
          prev_match == s.match_start
          lm == IF hashed /\ prev_length < max_lazy_match
                THEN longest_match(w, s.ins, cur, prev_length)
                ELSE <<MIN_MATCH - 1, -1>>
          found == lm[2] >= 0
          match_start == IF found THEN lm[2] ELSE prev_match
          match_length ==
              IF ~found THEN MIN_MATCH - 1
              ELSE IF lm[1] = MIN_MATCH /\ cur - lm[2] > TOO_FAR
                   THEN MIN_MATCH - 1
                   ELSE lm[1]
      IN
        IF prev_length >= MIN_MATCH /\ match_length <= prev_length
        THEN \* emit the previous match
             LET max_insert == cur + s.lookahead - MIN_MATCH
                 more == {p \in (cur + 1)..(cur + prev_length - 2) : p <= max_insert}
             IN  deflate_slow(w,
                   [strstart |-> cur + prev_length - 1,
                    lookahead |-> s.lookahead - (prev_length - 1),
                    ins |-> ins1 \cup more,
                    match_length |-> MIN_MATCH - 1,
                    match_start |-> match_start,
                    match_available |-> FALSE,
                    toks |-> Append(s.toks, Match(prev_length, cur - 1 - prev_match))])
        ELSE deflate_slow(w,
                   [strstart |-> cur + 1,
                    lookahead |-> s.lookahead - 1,
                    ins |-> ins1,
                    match_length |-> match_length,
                    match_start |-> match_start,
                    match_available |-> TRUE,
                    toks |-> IF s.match_available
                             THEN Append(s.toks, Literal(w[cur]))
                             ELSE s.toks])

lz77_tokens(w) ==
    deflate_slow(w, [strstart |-> 0, lookahead |-> Len(w), ins |-> {},
                     match_length |-> MIN_MATCH - 1, match_start |-> 0,
                     match_available |-> FALSE, toks |-> <<>>])

\* RFC 1951 3.2.5: extra bits and base of a length code 257..285
length_extra(c) == IF c <= 264 \/ c = 285 THEN 0 ELSE (c - 261) \div 4
length_base(c) ==
    IF c <= 264 THEN c - 254
    ELSE IF c = 285 THEN 258
    ELSE 3 + (4 + ((c - 261) % 4)) * Pow2(length_extra(c))

\* RFC 1951 3.2.5: extra bits and base of a distance code 0..29
dist_extra(c) == IF c <= 3 THEN 0 ELSE (c \div 2) - 1
dist_base(c) == IF c <= 3 THEN c + 1 ELSE 1 + (2 + (c % 2)) * Pow2(dist_extra(c))

\* RFC 1951 3.2.6: the fixed Huffman code of a literal/length symbol 0..287
fixed_code(sym) ==
    IF sym <= 143 THEN bits_msb(48 + sym, 8)
    ELSE IF sym <= 255 THEN bits_msb(400 + (sym - 144), 9)
    ELSE IF sym <= 279 THEN bits_msb(sym - 256, 7)
    ELSE bits_msb(192 + (sym - 280), 8)

length_bits(l) ==
    LET c == IF l = MAX_MATCH THEN 285
             ELSE CHOOSE k \in 257..284 :
                      length_base(k) <= l /\ l < length_base(k) + Pow2(length_extra(k))
    IN  fixed_code(c) \o bits_lsb(l - length_base(c), length_extra(c))

dist_bits(d) ==
    LET c == CHOOSE k \in 0..29 :
                 dist_base(k) <= d /\ d < dist_base(k) + Pow2(dist_extra(k))
    IN  bits_msb(c, 5) \o bits_lsb(d - dist_base(c), dist_extra(c))

RECURSIVE token_bits(_)
token_bits(toks) ==
    IF Len(toks) = 0 THEN <<>>
    ELSE LET t == Head(toks)
         IN  (IF t.len = 0 THEN fixed_code(t.v)
              ELSE length_bits(t.len) \o dist_bits(t.v))
             \o token_bits(Tail(toks))

END_BLOCK == 256

\* one final block (BFINAL = 1) of type 01 (fixed Huffman)
deflate(w) ==
    pack_bits(<<1, 1, 0>> \o token_bits(lz77_tokens(w)) \o fixed_code(END_BLOCK))

\* CMF = 0x78 (deflate, 32K window), FLG = 0x9C (default level, FCHECK)
ZLIB_HEADER == <<120, 156>>

\* zlib.compress(data): the whole stream in one call
zlib_compress(data) == ZLIB_HEADER \o deflate(data) \o adler32(data)

\* zlib.compressobj(): a fresh streaming compressor.  Its state is whether
\* the stream header is still to be written, the input taken so far and
\* whether the stream has been finished.
compressobj == [header_pending |-> TRUE, window |-> <<>>, finished |-> FALSE]

\* Compress.compress(chunk): takes the chunk; the header is the only output
\* before the block is closed.  Returns <<compressor after the call, output>>.
Compress_compress(c, chunk) ==
    << [header_pending |-> FALSE, window |-> c.window \o chunk, finished |-> FALSE],
       IF c.header_pending THEN ZLIB_HEADER ELSE <<>> >>

\* Compress.flush(): finishes the stream: the header if no call wrote it,
\* the block of all the input taken, and the checksum.
\* Returns <<compressor after the call, output>>.
Compress_flush(c) ==
    << [header_pending |-> FALSE, window |-> c.window, finished |-> TRUE],
       (IF c.header_pending THEN ZLIB_HEADER ELSE <<>>)
       \o deflate(c.window) \o adler32(c.window) >>

\* what a call yields: the exception it raises ("" when it returns) and the
\* value it returns
Return(v) == [raised |-> "", value |-> v]
RaiseBytes(e) == [raised |-> e, value |-> <<>>]
RaiseInt(e) == [raised |-> e, value |-> 0]

(***************************************************************************)
(* zlib: inflate                                                           *)
(***************************************************************************)
\* what an inflate step yields: the status, the next bit index, the output
Inflated(st, p, out) == [status |-> st, p |-> p, out |-> out]

\* copy l bytes from d bytes back, one at a time (a match may overlap itself)
RECURSIVE copy_match(_, _, _)
copy_match(out, d, l) ==
    IF l = 0 THEN out
    ELSE copy_match(Append(out, out[Len(out) - d + 1]), d, l - 1)

\* the length in bits of the fixed code whose first 7 bits are c7
code_len(c7) == IF c7 <= 23 THEN 7 ELSE IF c7 <= 99 THEN 8 ELSE 9

\* the literal/length symbol of the fixed code c of klen bits
fixed_symbol(c, klen) ==
    IF klen = 7 THEN 256 + c
    ELSE IF klen = 8 THEN (IF c <= 191 THEN c - 48 ELSE 280 + (c - 192))
    ELSE 144 + (c - 400)

\* the symbols of a fixed-Huffman block from bit index p, up to END_BLOCK:
\* the code, its symbol, and for a length symbol the distance and the copy
RECURSIVE inflate_fixed(_, _, _)
RECURSIVE inflate_code(_, _, _, _)
RECURSIVE inflate_symbol(_, _, _, _)
RECURSIVE inflate_distance(_, _, _, _, _)
RECURSIVE inflate_copy(_, _, _, _, _)

inflate_fixed(bits, p, out) ==
    IF Len(bits) - p + 1 < 7 THEN Inflated("error", p, out)
    ELSE inflate_code(bits, p, out, code_len(value_msb(bits, p, 7)))

inflate_code(bits, p, out, klen) ==
    IF Len(bits) - p + 1 < klen THEN Inflated("error", p, out)
    ELSE inflate_symbol(bits, p + klen, out, fixed_symbol(value_msb(bits, p, klen), klen))

inflate_symbol(bits, q, out, sym) ==
    IF sym < END_BLOCK THEN inflate_fixed(bits, q, Append(out, sym))
    ELSE IF sym = END_BLOCK THEN Inflated("ok", q, out)
    ELSE IF sym > 285 THEN Inflated("error", q, out)
    ELSE IF Len(bits) - q + 1 < length_extra(sym) + 5 THEN Inflated("error", q, out)
    ELSE inflate_distance(bits, q + length_extra(sym) + 5, out,
                          length_base(sym) + value_lsb(bits, q, length_extra(sym)),
                          value_msb(bits, q + length_extra(sym), 5))

inflate_distance(bits, q, out, l, dc) ==
    IF dc > 29 THEN Inflated("error", q, out)
    ELSE IF Len(bits) - q + 1 < dist_extra(dc) THEN Inflated("error", q, out)
    ELSE inflate_copy(bits, q + dist_extra(dc), out, l,
                      dist_base(dc) + value_lsb(bits, q, dist_extra(dc)))

inflate_copy(bits, q, out, l, d) ==
    IF d > Len(out) THEN Inflated("error", q, out)
    ELSE inflate_fixed(bits, q, copy_match(out, d, l))

\* the first bit index at or after p that starts a byte
byte_align(p) == p + ((8 - ((p - 1) % 8)) % 8)

\* a stored block: LEN, NLEN = ~LEN, then LEN bytes, from the byte at bit q on
stored_bytes(bits, q, out, len, nlen) ==
    IF nlen # 65535 - len THEN Inflated("error", q, out)
    ELSE IF Len(bits) - (q + 32) + 1 < 8 * len THEN Inflated("error", q, out)
    ELSE Inflated("ok", q + 32 + 8 * len,
                  out \o [k \in 1..len |-> value_lsb(bits, q + 32 + 8 * (k - 1), 8)])

inflate_stored(bits, q, out) ==
    IF Len(bits) - q + 1 < 32 THEN Inflated("error", q, out)
    ELSE stored_bytes(bits, q, out, value_lsb(bits, q, 16), value_lsb(bits, q + 16, 16))

\* the blocks of a deflate stream up to the one with BFINAL set.  A block
\* with dynamic Huffman codes (BTYPE = 10) is outside the model.
RECURSIVE inflate_blocks(_, _, _)
RECURSIVE after_block(_, _, _)

inflate_block(bits, p, out, btype) ==
    IF btype = 0 THEN inflate_stored(bits, byte_align(p), out)
    ELSE IF btype = 1 THEN inflate_fixed(bits, p, out)
    ELSE IF btype = 2 THEN Inflated("unmodelled", p, out)
    ELSE Inflated("error", p, out)

inflate_blocks(bits, p, out) ==
    IF Len(bits) - p + 1 < 3 THEN Inflated("error", p, out)
    ELSE after_block(bits, bits[p],
                     inflate_block(bits, p + 3, out, bits[p + 1] + 2 * bits[p + 2]))

after_block(bits, bfinal, r) ==
    IF r.status # "ok" \/ bfinal = 1 THEN r
    ELSE inflate_blocks(bits, r.p, r.out)

\* the end of the stream: the Adler-32 of the output in the 4 bytes from
\* index t + 1 on; bytes after it are ignored
check_adler(data, t, out) ==
    IF Len(data) < t + 4 THEN RaiseBytes("zlib.error")
    ELSE IF SubSeq(data, t + 1, t + 4) # adler32(out) THEN RaiseBytes("zlib.error")
    ELSE Return(out)

inflate_end(data, r) ==
    IF r.status = "unmodelled" THEN RaiseBytes("unmodelled")
    ELSE IF r.status # "ok" THEN RaiseBytes("zlib.error")
    ELSE check_adler(data, 2 + ((byte_align(r.p) - 1) \div 8), r.out)

\* the stream header: CM = 8 (deflate), CINFO <= 7, FCHECK, no preset dictionary
header_ok(cmf, flg) ==
    /\ (cmf * 256 + flg) % 31 = 0
    /\ cmf % 16 = 8
    /\ cmf \div 16 <= 7
    /\ (flg \div 32) % 2 = 0

\* zlib.decompress(data): the header check, the blocks, the Adler-32 check.
\* Every failure is zlib.error.
zlib_decompress(data) ==
    IF Len(data) < 2 THEN RaiseBytes("zlib.error")
    ELSE IF ~header_ok(data[1], data[2]) THEN RaiseBytes("zlib.error")
    ELSE inflate_end(data, inflate_blocks(unpack_bits(SubSeq(data, 3, Len(data))), 1, <<>>))

(***************************************************************************)
(* functions.py                                                            *)
(***************************************************************************)
\* (n >> k) & 0xff
shift_and_mask(n, k) == (n \div Pow2(k)) % 256

\* faulty variant of _encode_uint32_le: the bytes in big-endian order
_encode_uint32_be(n) ==
    << shift_and_mask(n, 24), shift_and_mask(n, 16),
       shift_and_mask(n, 8), shift_and_mask(n, 0) >>

_encode_uint32_le(n) ==
    << shift_and_mask(n, 0), shift_and_mask(n, 8),
       shift_and_mask(n, 16), shift_and_mask(n, 24) >>

\* faulty variant of _decode_uint32_le: a short header is read as if padded
\* with zero bytes
_decode_uint32_le_padded(n_bytes) ==
    Return((IF Len(n_bytes) >= 1 THEN n_bytes[1] ELSE 0)
           + (IF Len(n_bytes) >= 2 THEN n_bytes[2] * Pow2(8) ELSE 0)
           + (IF Len(n_bytes) >= 3 THEN n_bytes[3] * Pow2(16) ELSE 0)
           + (IF Len(n_bytes) >= 4 THEN n_bytes[4] * Pow2(24) ELSE 0))

\* n_bytes[i] of a bytes object shorter than i + 1 raises IndexError; the
\* bytes are disjoint bit fields, so | is +
_decode_uint32_le(n_bytes) ==
    IF Len(n_bytes) < 4 THEN RaiseInt("IndexError")
    ELSE Return(n_bytes[1] * Pow2(0) + n_bytes[2] * Pow2(8)
                + n_bytes[3] * Pow2(16) + n_bytes[4] * Pow2(24))

\* Python slices: b[i:] and b[:i] for i >= 0 clamp to the length
SliceFrom(b, i) == IF i >= Len(b) THEN <<>> ELSE SubSeq(b, i + 1, Len(b))
SliceTo(b, i) == IF i >= Len(b) THEN b ELSE SubSeq(b, 1, i)

\* faulty variant of compress: no special case for the empty plaintext
compress_always_framed(uncompressed_bytes) ==
    _encode_uint32_le(Len(uncompressed_bytes)) \o zlib_compress(uncompressed_bytes)

compress(uncompressed_bytes) ==
    IF Len(uncompressed_bytes) = 0 THEN <<>>
    ELSE _encode_uint32_le(Len(uncompressed_bytes)) \o zlib_compress(uncompressed_bytes)

\* faulty variant of uncompress: the header is handed to zlib with the body
uncompress_whole(compressed_bytes) ==
    IF Len(compressed_bytes) = 0 THEN Return(<<>>)
    ELSE zlib_decompress(compressed_bytes)

\* the stored length is compared with the length of what zlib returned
length_checked(stored, r) ==
    IF r.raised = "" /\ stored.raised = "" /\ stored.value # Len(r.value)
    THEN RaiseBytes("zlib.error")
    ELSE r

\* faulty variant of uncompress: the stored length is validated against
\* the decompressed size
uncompress_validating(compressed_bytes) ==
    IF Len(compressed_bytes) = 0 THEN Return(<<>>)
    ELSE length_checked(_decode_uint32_le(SliceTo(compressed_bytes, 4)),
                        zlib_decompress(SliceFrom(compressed_bytes, 4)))

uncompress(compressed_bytes) ==
    IF Len(compressed_bytes) = 0 THEN Return(<<>>)
    ELSE zlib_decompress(SliceFrom(compressed_bytes, 4))

uncompressed_length(compressed_bytes) ==
    IF Len(compressed_bytes) = 0 THEN Return(0)
    ELSE _decode_uint32_le(SliceTo(compressed_bytes, 4))

\* faulty variant of exceeds: the comparison the wrong way round
exceeds_below(stop, cl) == stop.given /\ cl < stop.n

\* stop_if_greater_than is not None and compressed_length > stop_if_greater_than
exceeds(stop, cl) == stop.given /\ cl > stop.n

\* faulty variant of range: a negative step is rejected like a zero one
range_rejects_negative(stop, step) ==
    IF step <= 0 THEN [raised |-> "ValueError", value |-> <<>>]
    ELSE Return([k \in 1..((stop + step - 1) \div step) |-> (k - 1) * step])

\* range(0, stop, step) for stop >= 0: a zero step raises ValueError, a
\* negative step yields nothing
range(stop, step) ==
    IF step = 0 THEN [raised |-> "ValueError", value |-> <<>>]
    ELSE IF step < 0 THEN Return(<<>>)
    ELSE Return([k \in 1..((stop + step - 1) \div step) |-> (k - 1) * step])

\* the chunks of exactly size bytes at the indexes r
full_chunks(source, size, r) ==
    IF r.raised # "" THEN r
    ELSE Return([k \in 1..(IF size > 0 THEN Len(source) \div size ELSE 0) |->
                    SliceTo(SliceFrom(source, r.value[k]), size)])

\* faulty variant of _chunked: the last, shorter chunk is not yielded
_chunked_full_only(source, size) == full_chunks(source, size, range(Len(source), size))

\* the chunks the generator yields, in order: source[i:i+size] for i in range
_chunked(source, size) ==
    LET r == range(Len(source), size)
    IN  IF r.raised # "" THEN r
        ELSE Return([k \in DOMAIN r.value |->
                        SliceTo(SliceFrom(source, r.value[k]), size)])

(***************************************************************************)
(* str.encode('utf8') and bytes.decode('utf8')                             *)
(***************************************************************************)
RECURSIVE encode_utf8(_)
encode_utf8(s) ==
    IF Len(s) = 0 THEN Return(<<>>)
    ELSE
      LET c == Head(s)
          rest == encode_utf8(Tail(s))
          b == IF c < 128 THEN <<c>>
               ELSE IF c < 2048 THEN <<192 + (c \div 64), 128 + (c % 64)>>
               ELSE IF c < 65536
                    THEN <<224 + (c \div 4096), 128 + ((c \div 64) % 64), 128 + (c % 64)>>
               ELSE <<240 + (c \div 262144), 128 + ((c \div 4096) % 64),
                      128 + ((c \div 64) % 64), 128 + (c % 64)>>
      IN  IF c >= 55296 /\ c <= 57343 THEN RaiseBytes("UnicodeEncodeError")
          ELSE IF rest.raised # "" THEN rest
          ELSE Return(b \o rest.value)

IsContinuation(b) == b >= 128 /\ b <= 191

RECURSIVE decode_utf8(_)
decode_utf8(b) ==
    IF Len(b) = 0 THEN Return(<<>>)
    ELSE
      LET b0 == b[1]
          n == IF b0 < 128 THEN 1
               ELSE IF b0 >= 194 /\ b0 <= 223 THEN 2
               ELSE IF b0 >= 224 /\ b0 <= 239 THEN 3
               ELSE IF b0 >= 240 /\ b0 <= 244 THEN 4
               ELSE 0
      IN
      IF n = 0 \/ Len(b) < n THEN RaiseBytes("UnicodeDecodeError")
      ELSE IF \E k \in 2..n : ~IsContinuation(b[k]) THEN RaiseBytes("UnicodeDecodeError")
      ELSE
        LET c == IF n = 1 THEN b0
                 ELSE IF n = 2 THEN (b0 - 192) * 64 + (b[2] - 128)
                 ELSE IF n = 3
                      THEN (b0 - 224) * 4096 + (b[2] - 128) * 64 + (b[3] - 128)
                 ELSE (b0 - 240) * 262144 + (b[2] - 128) * 4096
                      + (b[3] - 128) * 64 + (b[4] - 128)
            rest == decode_utf8(SliceFrom(b, n))
        IN
        \* overlong forms, surrogates and code points past U+10FFFF
        IF \/ (n = 3 /\ c < 2048)
           \/ (n = 3 /\ c >= 55296 /\ c <= 57343)
           \/ (n = 4 /\ c < 65536)
           \/ c > 1114111
        THEN RaiseBytes("UnicodeDecodeError")
        ELSE IF rest.raised # "" THEN rest
        ELSE Return(<<c>> \o rest.value)

(***************************************************************************)
(* fields.py: CompressedTextField                                          *)
(***************************************************************************)
\* a Python value that may be None: data is the str's code points or the
\* bytes' integers
NoneValue == [none |-> TRUE, data |-> <<>>]
Some(d) == [none |-> FALSE, data |-> d]

\* what a conversion yields: the exception raised ("" when it returns) and
\* the value returned
Converted(e, v) == [raised |-> e, result |-> v]

\* Convert Python value -> database value.  value is a str or None (the
\* smart_text branch for other types is not taken); Database.Binary is bytes.
get_db_prep_value(value, prepared) ==
    IF prepared THEN Converted("", value)
    ELSE IF value.none THEN Converted("", NoneValue)
    ELSE LET e == encode_utf8(value.data)
         IN  IF e.raised # "" THEN Converted(e.raised, NoneValue)
             ELSE Converted("", Some(compress(e.value)))

\* Convert database value -> Python value
from_db_value(database_value) ==
    IF database_value.none THEN Converted("", NoneValue)
    ELSE LET value_bytes == uncompress(database_value.data)
         IN  IF value_bytes.raised # "" THEN Converted(value_bytes.raised, NoneValue)
             ELSE LET value == decode_utf8(value_bytes.value)
                  IN  IF value.raised # "" THEN Converted(value.raised, NoneValue)
                      ELSE Converted("", Some(value.value))

(***************************************************************************)
(* The state: one call scenario at a time, chosen by Init.                 *)
(*   "codec"    compress(uncompressed_bytes), then uncompress and          *)
(*              uncompressed_length of the payload it returned             *)
(*   "stored"   uncompress and uncompressed_length of a payload read from  *)
(*              a column, whatever wrote it                                *)
(*   "estimate" compressed_length(uncompressed_bytes, chunk_size=...,      *)
(*              stop_if_greater_than=...), one loop iteration per step     *)
(*   "field"    get_db_prep_value(value), then from_db_value of the result *)
(***************************************************************************)
VARIABLES
    mode,                   \* the scenario
    pc,                     \* the position in it
    uncompressed_bytes,     \* argument of compress / compressed_length
    compressed_bytes,       \* argument of uncompress / uncompressed_length
    ret_uncompress,         \* what uncompress(compressed_bytes) yielded
    ret_uncompressed_length,\* what uncompressed_length(compressed_bytes) yielded
    chunk_size,             \* compressed_length: keyword argument
    stop_if_greater_than,   \* compressed_length: keyword argument, [given, n]
    compressor,             \* compressed_length: local
    compressed_length,      \* compressed_length: local
    chunks,                 \* compressed_length: chunks the generator has yet to yield
    early_exit,             \* compressed_length: the loop was left by break
    ret_compressed_length,  \* what compressed_length yielded
    value,                  \* field: the Python value
    prepared,               \* field: get_db_prep_value's argument
    database_value,         \* field: the column's value
    loaded                  \* field: what from_db_value yielded

vars == <<mode, pc, uncompressed_bytes, compressed_bytes, ret_uncompress,
          ret_uncompressed_length, chunk_size, stop_if_greater_than, compressor,
          compressed_length, chunks, early_exit, ret_compressed_length,
          value, prepared, database_value, loaded>>

codec_vars == <<uncompressed_bytes, compressed_bytes, ret_uncompress,
                ret_uncompressed_length>>
estimate_vars == <<chunk_size, stop_if_greater_than, compressor, compressed_length,
                   chunks, early_exit, ret_compressed_length>>
field_vars == <<value, prepared, database_value, loaded>>

\* a call that has not been made yet
PendingBytes == [raised |-> "pending", value |-> <<>>]
PendingInt == [raised |-> "pending", value |-> 0]
PendingValue == Converted("pending", NoneValue)

NoStop == [given |-> FALSE, n |-> 0]
Stop(n) == [given |-> TRUE, n |-> n]

(***************************************************************************)
(* The inputs Init draws.                                                  *)
(***************************************************************************)
\* byte values of the plaintexts: one with an 8-bit and one with a 9-bit
\* fixed Huffman code
PlainBytes == {1, 200}

SeqsUpTo(S, n) == UNION {[1..k -> S] : k \in 0..n}

Plaintexts == SeqsUpTo(PlainBytes, MaxLen)

\* chunk sizes: negative, zero, smaller than, equal to and larger than the
\* plaintexts, and the default
DEFAULT_CHUNK_SIZE == 64000
ChunkSizes == {-1, 0, 1, 2, 3, 4, DEFAULT_CHUNK_SIZE}

\* thresholds below, at and above the two header bytes the compressor
\* writes first, and one among the final lengths
StopThresholds == {NoStop, Stop(-1), Stop(1), Stop(2), Stop(14)}

\* stored payloads: the empty one, the ones too short for a header, and
\* every header in front of intact, damaged and foreign bodies
HeaderBytes == {0, 1, 255}
Headers == {h \in [1..4 -> HeaderBytes] : h[4] < 128}
ShortPayloads == UNION {[1..k -> HeaderBytes] : k \in 1..3}
Bodies ==
    { <<>>,
      zlib_compress(<<1>>),
      zlib_compress(<<1, 200>>),
      zlib_compress(<<1, 1, 1, 1, 1>>),
      \* truncated
      SliceTo(zlib_compress(<<1, 200>>), 9),
      SliceTo(zlib_compress(<<1>>), 1),
      \* wrong checksum
      SliceTo(zlib_compress(<<1>>), 8) \o <<3>>,
      \* bytes after the end of the stream
      zlib_compress(<<200>>) \o <<0>>,
      \* a stored block, as compression level 0 writes it
      <<120, 1, 1, 1, 0, 254, 255, 7, 0, 8, 0, 8>>,
      \* not a zlib stream
      <<7>>, <<1, 200>> }
StoredPayloads ==
    {<<>>} \cup ShortPayloads \cup {h \o b : h \in Headers, b \in Bodies}

\* code points with 1, 2, 3 and 4 byte encodings, and a lone surrogate,
\* which a str can hold and utf8 cannot encode
CodePoints == {65, 233, 8364, 128512, 55296}
Texts == SeqsUpTo(CodePoints, MaxText)
Encodable == {t \in Texts : encode_utf8(t).raised = ""}

InitCodec ==
    /\ mode \in {"codec", "stored"}
    /\ IF mode = "codec"
       THEN /\ pc = "compress"
            /\ uncompressed_bytes \in Plaintexts
            /\ compressed_bytes = <<>>
       ELSE /\ pc = "decode"
            /\ uncompressed_bytes = <<>>
            /\ compressed_bytes \in StoredPayloads
    /\ chunk_size = DEFAULT_CHUNK_SIZE
    /\ stop_if_greater_than = NoStop
    /\ value = NoneValue
    /\ prepared = FALSE

InitEstimate ==
    /\ mode = "estimate"
    /\ pc = "call"
    /\ uncompressed_bytes \in Plaintexts
    /\ compressed_bytes = <<>>
    /\ chunk_size \in ChunkSizes
    /\ stop_if_greater_than \in StopThresholds
    /\ value = NoneValue
    /\ prepared = FALSE

InitField ==
    /\ mode = "field"
    /\ pc = "save"
    /\ uncompressed_bytes = <<>>
    /\ compressed_bytes = <<>>
    /\ chunk_size = DEFAULT_CHUNK_SIZE
    /\ stop_if_greater_than = NoStop
    /\ prepared \in BOOLEAN
    /\ IF prepared
       THEN \* the caller has converted the value already
            value \in {NoneValue} \cup {Some(compress(encode_utf8(t).value)) : t \in Encodable}
       ELSE value \in {NoneValue} \cup {Some(t) : t \in Texts}

Init ==
    /\ (InitCodec \/ InitEstimate \/ InitField)
    /\ ret_uncompress = PendingBytes
    /\ ret_uncompressed_length = PendingInt
    /\ compressor = compressobj
    /\ compressed_length = 0
    /\ chunks = <<>>
    /\ early_exit = FALSE
    /\ ret_compressed_length = PendingInt
    /\ database_value = NoneValue
    /\ loaded = PendingValue

(***************************************************************************)
(* functions.py: the calls                                                 *)
(***************************************************************************)
compress_call ==
    /\ mode = "codec"
    /\ pc = "compress"
    /\ compressed_bytes' = compress(uncompressed_bytes)
    /\ pc' = "decode"
    /\ UNCHANGED <<mode, uncompressed_bytes, ret_uncompress, ret_uncompressed_length>>
    /\ UNCHANGED estimate_vars
    /\ UNCHANGED field_vars

uncompress_call ==
    /\ pc = "decode"
    /\ ret_uncompress = PendingBytes
    /\ ret_uncompress' = uncompress(compressed_bytes)
    /\ UNCHANGED <<mode, pc, uncompressed_bytes, compressed_bytes, ret_uncompressed_length>>
    /\ UNCHANGED estimate_vars
    /\ UNCHANGED field_vars

uncompressed_length_call ==
    /\ pc = "decode"
    /\ ret_uncompressed_length = PendingInt
    /\ ret_uncompressed_length' = uncompressed_length(compressed_bytes)
    /\ UNCHANGED <<mode, pc, uncompressed_bytes, compressed_bytes, ret_uncompress>>
    /\ UNCHANGED estimate_vars
    /\ UNCHANGED field_vars

\* compressed_length, lines 74-77: the empty case, the compressor, the
\* generator (whose range() raises on a zero chunk size)
compressed_length_call ==
    /\ mode = "estimate"
    /\ pc = "call"
    /\ IF Len(uncompressed_bytes) = 0
       THEN /\ ret_compressed_length' = Return(0)
            /\ pc' = "done"
            /\ UNCHANGED <<compressor, compressed_length, chunks>>
       ELSE LET c == _chunked(uncompressed_bytes, chunk_size)
            IN  /\ compressor' = compressobj
                /\ compressed_length' = 0
                /\ IF c.raised # ""
                   THEN /\ ret_compressed_length' = RaiseInt(c.raised)
                        /\ pc' = "raised"
                        /\ UNCHANGED chunks
                   ELSE /\ chunks' = c.value
                        /\ pc' = IF c.value = <<>> THEN "flush" ELSE "loop"
                        /\ UNCHANGED ret_compressed_length
    /\ UNCHANGED <<mode, chunk_size, stop_if_greater_than, early_exit>>
    /\ UNCHANGED codec_vars
    /\ UNCHANGED field_vars

\* compressed_length, lines 79-82: one iteration of the loop
compressed_length_chunk ==
    /\ mode = "estimate"
    /\ pc = "loop"
    /\ LET r == Compress_compress(compressor, Head(chunks))
           cl == compressed_length + Len(r[2])
       IN  /\ compressor' = r[1]
           /\ compressed_length' = cl
           /\ chunks' = Tail(chunks)
           /\ early_exit' = exceeds(stop_if_greater_than, cl)
           /\ pc' = IF exceeds(stop_if_greater_than, cl) \/ Tail(chunks) = <<>>
                    THEN "flush" ELSE "loop"
    /\ UNCHANGED <<mode, chunk_size, stop_if_greater_than, ret_compressed_length>>
    /\ UNCHANGED codec_vars
    /\ UNCHANGED field_vars

\* compressed_length, lines 83-84: after the loop, however it was left
compressed_length_flush ==
    /\ mode = "estimate"
    /\ pc = "flush"
    /\ LET r == Compress_flush(compressor)
           cl == compressed_length + Len(r[2])
       IN  /\ compressor' = r[1]
           /\ compressed_length' = cl
           /\ ret_compressed_length' = Return(4 + cl)
    /\ pc' = "done"
    /\ UNCHANGED <<mode, chunk_size, stop_if_greater_than, chunks, early_exit>>
    /\ UNCHANGED codec_vars
    /\ UNCHANGED field_vars

(***************************************************************************)
(* fields.py: the calls                                                    *)
(***************************************************************************)
get_db_prep_value_call ==
    /\ mode = "field"
    /\ pc = "save"
    /\ LET r == get_db_prep_value(value, prepared)
       IN  IF r.raised # ""
           THEN /\ pc' = "raised"
                /\ UNCHANGED database_value
           ELSE /\ pc' = "load"
                /\ database_value' = r.result
    /\ UNCHANGED <<mode, value, prepared, loaded>>
    /\ UNCHANGED codec_vars
    /\ UNCHANGED estimate_vars

from_db_value_call ==
    /\ mode = "field"
    /\ pc = "load"
    /\ loaded' = from_db_value(database_value)
    /\ pc' = "done"
    /\ UNCHANGED <<mode, value, prepared, database_value>>
    /\ UNCHANGED codec_vars
    /\ UNCHANGED estimate_vars

Next ==
    \/ compress_call
    \/ uncompress_call
    \/ uncompressed_length_call
    \/ compressed_length_call
    \/ compressed_length_chunk
    \/ compressed_length_flush
    \/ get_db_prep_value_call
    \/ from_db_value_call

Spec == Init /\ [][Next]_vars

(***************************************************************************)
(* Properties                                                              *)
(***************************************************************************)
\* both decoding calls of the scenario have been made
Decoded ==
    /\ pc = "decode"
    /\ ret_uncompress # PendingBytes
    /\ ret_uncompressed_length # PendingInt

\* compressed_length has returned or raised
Estimated == mode = "estimate" /\ pc \in {"done", "raised"}

\* C1: round trip.  uncompress(compress(x)) returns exactly x for every
\* plaintext x, the empty one included; and a text value converted by
\* get_db_prep_value (utf8-encode, compress) and back by from_db_value
\* (uncompress, utf8-decode) is the value that was written.
C1_RoundTrip ==
    /\ (mode = "codec" /\ pc = "decode" /\ ret_uncompress # PendingBytes)
          => ret_uncompress = Return(uncompressed_bytes)
    /\ (mode = "field" /\ ~prepared /\ pc = "done")
          => loaded = Converted("", value)

\* a text with a multi-byte code point has been written and read back
C1_Witness ==
    /\ mode = "field" /\ ~prepared /\ pc = "done"
    /\ ~value.none /\ Len(value.data) = MaxText
    /\ \E k \in DOMAIN value.data : value.data[k] = 8364
    /\ loaded.raised = ""

\* C2: length accuracy.  uncompressed_length(compress(x)) = len(x): the
\* header compress writes decodes back to the plaintext's length (0 for the
\* empty plaintext, which has no header), and for any stored header the
\* decoded length encodes back to the same 4 bytes.
C2_LengthAccuracy ==
    /\ (mode = "codec" /\ pc = "decode" /\ ret_uncompressed_length # PendingInt)
          => ret_uncompressed_length = Return(Len(uncompressed_bytes))
    /\ (mode = "stored" /\ Len(compressed_bytes) >= 4
        /\ ret_uncompressed_length # PendingInt)
          => /\ ret_uncompressed_length.raised = ""
             /\ _encode_uint32_le(ret_uncompressed_length.value)
                   = SubSeq(compressed_bytes, 1, 4)

\* the length of a longest plaintext has been read from its payload
C2_Witness ==
    /\ mode = "codec" /\ pc = "decode"
    /\ Len(uncompressed_bytes) = MaxLen
    /\ ret_uncompressed_length = Return(MaxLen)

\* compressed_length was called without a stop threshold
Unthresholded == mode = "estimate" /\ ~stop_if_greater_than.given

\* C3, as claimed: without a stop threshold compressed_length(x) returns
\* exactly len(compress(x)), whatever the chunk size.
C3_ExactForEveryChunkSize ==
    (Unthresholded /\ Estimated)
        => ret_compressed_length = Return(Len(compress(uncompressed_bytes)))

\* C3, amended: without a stop threshold compressed_length(x) returns exactly
\* len(compress(x)) for every chunk size greater than zero (for the empty
\* plaintext, for every chunk size).
C3_ExactForPositiveChunkSize ==
    (Unthresholded /\ Estimated /\ (chunk_size > 0 \/ Len(uncompressed_bytes) = 0))
        => ret_compressed_length = Return(Len(compress(uncompressed_bytes)))

\* a longest plaintext has been measured in several chunks
C3_Witness ==
    /\ Unthresholded /\ pc = "done"
    /\ chunk_size = 2 /\ Len(uncompressed_bytes) = MaxLen
    /\ ret_compressed_length.value > 4

\* C4: lower bound.  When compressed_length leaves its loop because the
\* running size exceeded the threshold, the value it returns is at most
\* len(compress(x)).
C4_EarlyExitIsLowerBound ==
    (mode = "estimate" /\ pc = "done" /\ early_exit)
        => ret_compressed_length.value <= Len(compress(uncompressed_bytes))

\* a payload of 1 to 3 bytes
ShortPayload == Len(compressed_bytes) >= 1 /\ Len(compressed_bytes) <= 3

\* C5, as claimed: on a payload of 1 to 3 bytes uncompress and
\* uncompressed_length both fail, with one and the same kind of error.
C5_ShortInputOneErrorKind ==
    (Decoded /\ ShortPayload)
        => /\ ret_uncompress.raised # ""
           /\ ret_uncompressed_length.raised = ret_uncompress.raised

\* C5, amended: on a payload of 1 to 3 bytes neither call returns a value:
\* uncompress fails with zlib.error, uncompressed_length with IndexError.
C5_ShortInputFails ==
    /\ (pc = "decode" /\ ShortPayload /\ ret_uncompress # PendingBytes)
          => ret_uncompress = RaiseBytes("zlib.error")
    /\ (pc = "decode" /\ ShortPayload /\ ret_uncompressed_length # PendingInt)
          => ret_uncompressed_length = RaiseInt("IndexError")

\* both calls have been made on a 3-byte payload
C5_Witness == Decoded /\ Len(compressed_bytes) = 3

\* C6: the empty input.  compress(b"") is empty and only the empty
\* plaintext compresses to the empty payload (any other payload is longer
\* than its 4-byte header); uncompress(b"") is empty;
\* uncompressed_length(b"") is 0; compressed_length(b"") is 0 for every
\* chunk size and threshold.
C6_EmptyInput ==
    /\ (mode = "codec" /\ pc = "decode")
          => /\ (compressed_bytes = <<>>) <=> (uncompressed_bytes = <<>>)
             /\ uncompressed_bytes # <<>> => Len(compressed_bytes) > 4
    /\ (pc = "decode" /\ compressed_bytes = <<>>)
          => /\ ret_uncompress \in {PendingBytes, Return(<<>>)}
             /\ ret_uncompressed_length \in {PendingInt, Return(0)}
    /\ (mode = "estimate" /\ uncompressed_bytes = <<>> /\ pc # "call")
          => /\ pc = "done"
             /\ ret_compressed_length = Return(0)

\* the empty plaintext has been compressed and the result decoded
C6_Witness ==
    /\ mode = "codec" /\ Decoded
    /\ uncompressed_bytes = <<>> /\ compressed_bytes = <<>>

\* C7: early exit.  Once the running size has exceeded the threshold no
\* further chunk is fed to the compressor and the compressor is not
\* flushed: the flush happens only when the loop ran to its end.
C7_EarlyExitSkipsFlush ==
    [][early_exit => /\ compressor'.window = compressor.window
                     /\ ~compressor'.finished]_vars

\* the calls the amended C8 covers: every chunk size but zero (for the empty
\* plaintext, every chunk size)
NonZeroChunkSize ==
    mode = "estimate" /\ (chunk_size # 0 \/ Len(uncompressed_bytes) = 0)

\* C8, as claimed: compressed_length never raises, whatever the plaintext,
\* the chunk size and the threshold.
C8_NeverRaises == mode = "estimate" => pc # "raised"

\* the steps a call of compressed_length has yet to take, at most
StepsLeft ==
    IF pc = "call" THEN Len(uncompressed_bytes) + 3
    ELSE IF pc = "loop" THEN Len(chunks) + 2
    ELSE IF pc = "flush" THEN Len(chunks) + 1
    ELSE 0

\* C8, amended: for every plaintext, every threshold and every chunk size
\* other than zero, compressed_length terminates and returns an integer
\* without raising (a zero chunk size raises ValueError unless the plaintext
\* is empty): it never raises, until it has returned it is at a step it can
\* take (in the loop there is a chunk to feed), and every step brings the
\* return nearer.
C8_ReturnsUnlessZeroChunkSize ==
    /\ [](NonZeroChunkSize
            => /\ pc \in {"call", "loop", "flush", "done"}
               /\ pc = "loop" => chunks # <<>>
               /\ pc = "done" => ret_compressed_length.raised = "")
    /\ [][NonZeroChunkSize => StepsLeft' < StepsLeft]_vars

\* a call with a negative chunk size has returned
C8_Witness ==
    /\ mode = "estimate" /\ pc = "done"
    /\ chunk_size < 0 /\ Len(uncompressed_bytes) = MaxLen
    /\ ret_compressed_length.raised = ""

\* the little-endian unsigned value of the 4 bytes h
LittleEndianValue(h) == h[1] + 256 * h[2] + 65536 * h[3] + 16777216 * h[4]

\* C9: header and body are independent.  For a payload h ++ b with 4 bytes
\* h, uncompressed_length is the little-endian value of h whatever b is (a
\* damaged body does not make it fail, and replacing the body changes
\* nothing), and uncompress is the decompression of b whatever h is
\* (replacing the header changes nothing; the stored length is not
\* compared with the decompressed size).
C9_HeaderBodyIndependence ==
    (pc = "decode" /\ Len(compressed_bytes) >= 4)
        => /\ ret_uncompressed_length # PendingInt
              => /\ ret_uncompressed_length
                       = Return(LittleEndianValue(SubSeq(compressed_bytes, 1, 4)))
                 /\ uncompressed_length(SubSeq(compressed_bytes, 1, 4) \o <<7>>)
                       = ret_uncompressed_length
           /\ ret_uncompress # PendingBytes
              => /\ ret_uncompress
                       = zlib_decompress(SubSeq(compressed_bytes, 5, Len(compressed_bytes)))
                 /\ uncompress(<<255, 255, 255, 0>>
                               \o SubSeq(compressed_bytes, 5, Len(compressed_bytes)))
                       = ret_uncompress

\* an intact body has been decompressed under a header that states another
\* length
C9_Witness ==
    /\ mode = "stored" /\ Decoded
    /\ ret_uncompress.raised = "" /\ ret_uncompressed_length.raised = ""
    /\ Len(ret_uncompress.value) > 0
    /\ ret_uncompressed_length.value # Len(ret_uncompress.value)

\* C10: for a non-empty plaintext, a positive chunk size and a threshold
\* T, a result of at most T comes from a loop that ran to its end and is
\* exactly len(compress(x)); a result after an early exit is greater than T.
C10_ThresholdDecides ==
    (mode = "estimate" /\ pc = "done" /\ stop_if_greater_than.given
     /\ chunk_size > 0 /\ Len(uncompressed_bytes) > 0)
        => /\ ret_compressed_length.value <= stop_if_greater_than.n
              => /\ ~early_exit
                 /\ ret_compressed_length.value = Len(compress(uncompressed_bytes))
           /\ early_exit => ret_compressed_length.value > stop_if_greater_than.n

\* a result within the threshold has been returned
C10_Witness ==
    /\ mode = "estimate" /\ pc = "done" /\ stop_if_greater_than.given
    /\ chunk_size > 0 /\ Len(uncompressed_bytes) > 0
    /\ ret_compressed_length.value <= stop_if_greater_than.n
====
